---- MODULE Spec2Model ----
(***************************************************************************)
(* Leetzer browser extension: the Gemini HTTP client (retry, timeout,      *)
(* rate limit), the response parsers, the background settings handler and  *)
(* the debounce helper, modelled from the TypeScript sources.              *)
(*                                                                         *)
(* Time is the millisecond clock Date.now(); it advances in steps of Tick. *)
(* A timer (setTimeout) is a record with a deadline; it fires once the     *)
(* clock has reached its deadline and never earlier.                       *)
(***************************************************************************)
EXTENDS Integers, Sequences, FiniteSets, TLC

VARIABLES
    now,            \* Date.now(), ms
    rateLimitInfo,  \* GeminiClient.rateLimitInfo
    op,             \* the public operation in progress (or the last one)
    apiKey,         \* the key the operation was called with
    pc,             \* position in makeRequest: "idle", "fetching", "delaying"
    attempt,        \* makeRequest's loop variable
    lastError,      \* makeRequest's lastError (message, or Null)
    timers,         \* pending setTimeout timers of the client
    response,       \* what makeRequest returned to the operation
    outcome,        \* what the operation returned or threw
    callId,         \* number of operations started so far
    hist,           \* observations of the current makeRequest call
    sentInWindow,   \* HTTP requests sent in the current rate-limit window
    callsLeft,      \* operations the environment may still start
    ticksLeft,      \* single clock ticks the environment may still take
    \* background service (background.ts)
    storageSettings, \* chrome.storage.local 'settings' (or Undefined)
    initPc,          \* position of initializeExtension
    handlers,        \* the message handlers started so far
    baseSettings,    \* the settings when the first message arrived, and
                     \* whether initializeExtension had finished by then
    \* Helpers.debounce (helpers.ts, helpers.js)
    impl,            \* which of the two implementations
    wait,            \* debounce's wait argument, ms
    timeout,         \* the closure's timeout variable (timer id, or Null)
    debTimers,       \* pending setTimeout(later, wait) timers
    debClock,        \* Date.now() on the page
    debLog,          \* observations: calls, bursts, invocations of func
    debBudget,       \* calls and clock ticks the environment may still take
    \* response parsers of GeminiClient
    parserBuild,     \* "pro": src/utils/geminiClient.ts, "flash": the other build
    responseText,    \* the text handed to the parser, a sequence of tokens
    parseResult,     \* what the parser returned (or NotParsed)
    \* Helpers.waitForElement (helpers.ts, helpers.js)
    waitFor,         \* the promise of Helpers.waitForElement and its pending poll
    waitEnv,         \* Date.now() on the page and whether the selector matches
    waitLog,         \* observations of the polls made so far
    \* content script (LeetCodeAnalyzer and its message listener)
    panel,           \* LeetCodeAnalyzer: dropdown, isInjected, currentState, the host page
    runtime,         \* messages to the background service and how it handled them
    triggers,        \* messages from the popup, pending callbacks and responses
    \* CodeParser.parseCodeStructure (codeParser.ts)
    code,            \* the code string handed to parseCodeStructure
    codeInfo,        \* the CodeInfo it returned (or NotChecked)
    \* CodeParser.extractCodeFromEditor (codeParser.ts)
    dom,             \* the document of the problem page, as the selectors see it
    extracted        \* what extractCodeFromEditor / getCurrentCodeInfo returned

clientVars == <<now, rateLimitInfo, op, apiKey, pc, attempt, lastError, timers,
                response, outcome, callId, hist, sentInWindow, callsLeft, ticksLeft>>

bgVars == <<storageSettings, initPc, handlers, baseSettings>>

debVars == <<impl, wait, timeout, debTimers, debClock, debLog, debBudget>>

parseVars == <<parserBuild, responseText, parseResult>>

waitVars == <<waitFor, waitEnv, waitLog>>

panelVars == <<panel, runtime, triggers>>

codeVars == <<code, codeInfo>>

domVars == <<dom, extracted>>

vars == <<clientVars, bgVars, debVars, parseVars, waitVars, panelVars, codeVars, domVars>>

Null == "null"

-----------------------------------------------------------------------------
(* GeminiClient constants *)

MAX_RETRIES == 3
RETRY_DELAY == 1000
REQUEST_TIMEOUT == 30000
RATE_WINDOW == 60000
KEY_LENGTH == 39
\* requestsPerMinute as configured in the two builds of geminiClient
RPM_PRO == 0
RPM_FLASH == 100

(* Model bounds *)
Tick == RETRY_DELAY          \* clock granularity
MaxTicks == 1                \* single clock ticks taken in Spec
MaxCalls == 1                \* operations started in Spec
RateCalls == 101             \* operations started in SpecRate
RateTicks == 3               \* single clock ticks taken in SpecRate

-----------------------------------------------------------------------------
(* API keys: a JavaScript value that is a string of characters or not a    *)
(* string at all.                                                          *)

RECURSIVE Pad(_, _)
Pad(s, n) == IF Len(s) >= n THEN s ELSE Pad(Append(s, "x"), n)

StrKey(chars) == [isString |-> TRUE, chars |-> chars]
NonStringKey == [isString |-> FALSE, chars |-> <<>>]

AIza == <<"A", "I", "z", "a">>

ApiKeys ==
    { StrKey(Pad(AIza, n)) : n \in {KEY_LENGTH - 1, KEY_LENGTH, KEY_LENGTH + 1} }
    \cup { StrKey(Pad(<<"B", "I", "z", "a">>, KEY_LENGTH)), StrKey(<<>>), NonStringKey }

startsWith(s, prefix) ==
    /\ Len(s) >= Len(prefix)
    /\ SubSeq(s, 1, Len(prefix)) = prefix

isValidApiKeyFormatPrefixOnly(key) ==
    /\ key.isString
    /\ startsWith(key.chars, AIza)

isValidApiKeyFormat(key) ==
    /\ key.isString
    /\ startsWith(key.chars, AIza)
    /\ Len(key.chars) = KEY_LENGTH

StoredKey == StrKey(Pad(AIza, KEY_LENGTH))

-----------------------------------------------------------------------------
(* Outcomes of one fetch and the Error message each produces *)

ResolveOutcomes == {"ok", "status", "apierror", "nocandidates", "emptytext", "badjson"}

ErrorMessage(o) ==
    CASE o = "network"      -> "Failed to fetch"
      [] o = "abort"        -> "The user aborted a request."
      [] o = "status"       -> "API request failed: 500 Internal Server Error. "
      [] o = "apierror"     -> "API error: quota"
      [] o = "nocandidates" -> "No response generated"
      [] o = "emptytext"    -> "Empty response from API"
      [] o = "badjson"      -> "Unexpected token < in JSON"

RATE_LIMIT_MESSAGE == "Rate limit exceeded. Please wait before making another request."

\* JavaScript's  a || b  on a string or undefined
OrElse(a, b) == IF a = Null \/ a = "" THEN b ELSE a

Operations == {"testApiKey", "analyzeCode", "generateSolution",
               "analyzeComplexity", "optimizeCode"}

FailureText(o) ==
    CASE o = "analyzeCode"       -> "Failed to analyze code"
      [] o = "generateSolution"  -> "Failed to generate solution"
      [] o = "analyzeComplexity" -> "Failed to analyze complexity"
      [] o = "optimizeCode"      -> "Failed to optimize code"

NoResponse == [success |-> FALSE, data |-> Null, error |-> Null, none |-> TRUE]
Success(text) == [success |-> TRUE, data |-> text, error |-> Null, none |-> FALSE]
Failure(msg) == [success |-> FALSE, data |-> Null, error |-> msg, none |-> FALSE]

NoOutcome == [kind |-> "none"]

OperationResultGenericMessage(o, resp) ==
    IF o = "testApiKey"
    THEN [kind |-> "return", isValid |-> resp.success, error |-> resp.error]
    ELSE IF ~resp.success
         THEN [kind |-> "throw", message |-> FailureText(o)]
         ELSE [kind |-> "return", parsed |-> resp.data]

\* what the public operation does with makeRequest's response
OperationResult(o, resp) ==
    IF o = "testApiKey"
    THEN [kind |-> "return", isValid |-> resp.success, error |-> resp.error]
    ELSE IF ~resp.success
         THEN [kind |-> "throw", message |-> OrElse(resp.error, FailureText(o))]
         ELSE [kind |-> "return", parsed |-> resp.data]

-----------------------------------------------------------------------------
(* Rate limit bookkeeping *)

\* the reset part of checkRateLimit
RateAfterCheck(t) ==
    IF t > rateLimitInfo.resetTime
    THEN [rateLimitInfo EXCEPT !.currentRequests = 0, !.resetTime = t + RATE_WINDOW]
    ELSE rateLimitInfo

\* a comparison that admits one request more
WithinRateLimitInclusive(info) == info.currentRequests <= info.requestsPerMinute

\* the comparison of checkRateLimit
WithinRateLimit(info) == info.currentRequests < info.requestsPerMinute

\* updateRateLimit, called on the success path only
updateRateLimit(info, sending) ==
    IF sending THEN info ELSE [info EXCEPT !.currentRequests = @ + 1]

-----------------------------------------------------------------------------
(* Timers *)

AbortTimer(c, k, t) == [kind |-> "abort", call |-> c, attempt |-> k, deadline |-> t + REQUEST_TIMEOUT]
DelayTimer(c, k, t, ms) == [kind |-> "delay", call |-> c, attempt |-> k, deadline |-> t + ms]

Due(tm) == tm.deadline <= now

\* sent: HTTP requests of this call; startedAt, failedAt: when the latest
\* attempt started and when the latest failure was caught; wait: the delay
\* asked for after that failure (0: none); failures: failed attempts
EmptyHist == [sent |-> 0, startedAt |-> 0, failedAt |-> 0, wait |-> 0, failures |-> 0]

BackoffConstant(k) == RETRY_DELAY

\* the delay before the attempt after failed attempt k
Backoff(k) == RETRY_DELAY * k

RetriesOneMore(k) == k <= MAX_RETRIES

\* the loop goes on to another attempt after failed attempt k
Retries(k) == k < MAX_RETRIES

\* one iteration of the for loop starts: AbortController, setTimeout, fetch
StartAttempt(k, info) ==
    /\ attempt' = k
    /\ pc' = "fetching"
    /\ timers' = { tm \in timers : tm.kind # "delay" } \cup {AbortTimer(callId, k, now)}
    /\ hist' = [hist EXCEPT !.sent = @ + 1, !.startedAt = now]
    /\ rateLimitInfo' = updateRateLimit(info, TRUE)
    /\ sentInWindow' = IF now <= info.resetTime THEN sentInWindow + 1 ELSE sentInWindow

\* the operation ends with makeRequest's response resp
Finish(resp) ==
    /\ response' = resp
    /\ outcome' = OperationResult(op, resp)
    /\ pc' = "idle"

\* the catch block of makeRequest, after the attempt failed with message msg;
\* rest are the timers left pending
Catch(msg, rest) ==
    /\ lastError' = msg
    /\ hist' = [hist EXCEPT !.failedAt = now, !.failures = @ + 1,
                            !.wait = IF Retries(attempt) THEN Backoff(attempt) ELSE 0]
    /\ IF Retries(attempt)
       THEN /\ timers' = rest \cup {DelayTimer(callId, attempt, now, Backoff(attempt))}
            /\ pc' = "delaying"
            /\ UNCHANGED <<response, outcome>>
       ELSE /\ timers' = rest
            /\ Finish(Failure(OrElse(msg, "Request failed after retries")))
    /\ UNCHANGED <<now, rateLimitInfo, op, apiKey, attempt, callId, sentInWindow,
                   callsLeft, ticksLeft>>

-----------------------------------------------------------------------------
(* Actions of the client *)

\* a public operation is called; testApiKey checks the key format first, then
\* every operation enters makeRequest: checkRateLimit, then the first attempt
Call(o, key) ==
    /\ UNCHANGED <<bgVars, debVars, parseVars, waitVars, panelVars, codeVars, domVars>>
    /\ pc = "idle"
    /\ callsLeft > 0
    /\ callsLeft' = callsLeft - 1
    /\ callId' = callId + 1
    /\ op' = o
    /\ apiKey' = key
    /\ lastError' = Null
    /\ UNCHANGED <<now, ticksLeft>>
    /\ IF o = "testApiKey" /\ ~isValidApiKeyFormat(key)
       THEN /\ response' = NoResponse
            /\ outcome' = [kind |-> "return", isValid |-> FALSE, error |-> "Invalid API key format"]
            /\ hist' = EmptyHist
            /\ UNCHANGED <<rateLimitInfo, pc, attempt, timers, sentInWindow>>
       ELSE LET info == RateAfterCheck(now)
                reset == info # rateLimitInfo
            IN IF ~WithinRateLimit(info)
               THEN /\ rateLimitInfo' = info
                    /\ sentInWindow' = IF reset THEN 0 ELSE sentInWindow
                    /\ response' = Failure(RATE_LIMIT_MESSAGE)
                    /\ outcome' = OperationResult(o, Failure(RATE_LIMIT_MESSAGE))
                    /\ hist' = EmptyHist
                    /\ UNCHANGED <<pc, attempt, timers>>
               ELSE /\ attempt' = 1
                    /\ pc' = "fetching"
                    /\ timers' = timers \cup {AbortTimer(callId', 1, now)}
                    /\ hist' = [EmptyHist EXCEPT !.sent = 1, !.startedAt = now]
                    /\ rateLimitInfo' = updateRateLimit(info, TRUE)
                    /\ sentInWindow' = (IF reset THEN 0 ELSE sentInWindow) + 1
                    /\ response' = NoResponse
                    /\ outcome' = NoOutcome

\* fetch resolves with an HTTP response: clearTimeout, then the body is read
\* and checked
FetchResolve(o) ==
    /\ UNCHANGED <<bgVars, debVars, parseVars, waitVars, panelVars, codeVars, domVars>>
    /\ pc = "fetching"
    /\ LET rest == timers \ {AbortTimer(callId, attempt, hist.startedAt)}
       IN IF o = "ok"
          THEN /\ rateLimitInfo' = updateRateLimit(rateLimitInfo, FALSE)
               /\ timers' = rest
               /\ Finish(Success("text"))
               /\ UNCHANGED <<now, op, apiKey, attempt, lastError, callId, hist,
                              sentInWindow, callsLeft, ticksLeft>>
          ELSE Catch(ErrorMessage(o), rest)

\* fetch rejects (network error): the catch block runs, the timeout timer of
\* the attempt is not cleared
FetchReject ==
    /\ UNCHANGED <<bgVars, debVars, parseVars, waitVars, panelVars, codeVars, domVars>>
    /\ pc = "fetching"
    /\ Catch(ErrorMessage("network"), timers)

\* a REQUEST_TIMEOUT timer fires: controller.abort() of the attempt that set it
TimeoutFire(tm) ==
    /\ UNCHANGED <<bgVars, debVars, parseVars, waitVars, panelVars, codeVars, domVars>>
    /\ tm \in timers
    /\ tm.kind = "abort"
    /\ Due(tm)
    /\ IF pc = "fetching" /\ tm.call = callId /\ tm.attempt = attempt
       THEN Catch(ErrorMessage("abort"), timers \ {tm})
       ELSE /\ timers' = timers \ {tm}
            /\ UNCHANGED <<now, rateLimitInfo, op, apiKey, pc, attempt, lastError,
                           response, outcome, callId, hist, sentInWindow, callsLeft,
                           ticksLeft>>

\* the delay() timer fires: the loop goes on with the next attempt
DelayFire(tm) ==
    /\ UNCHANGED <<bgVars, debVars, parseVars, waitVars, panelVars, codeVars, domVars>>
    /\ pc = "delaying"
    /\ tm \in timers
    /\ tm.kind = "delay"
    /\ Due(tm)
    /\ StartAttempt(attempt + 1, rateLimitInfo)
    /\ UNCHANGED <<now, op, apiKey, lastError, response, outcome, callId,
                   callsLeft, ticksLeft>>

\* something is still in progress or still to come
Busy == pc # "idle" \/ timers # {} \/ callsLeft > 0

\* the clock advances by one tick; timers fire on time
ClockTick ==
    /\ UNCHANGED <<bgVars, debVars, parseVars, waitVars, panelVars, codeVars, domVars>>
    /\ ticksLeft > 0
    /\ Busy
    /\ \A tm \in timers : ~Due(tm)
    /\ now' = now + Tick
    /\ ticksLeft' = ticksLeft - 1
    /\ UNCHANGED <<rateLimitInfo, op, apiKey, pc, attempt, lastError, timers,
                   response, outcome, callId, hist, sentInWindow, callsLeft>>

\* nothing happens until the next timer is due
ClockSleep ==
    /\ UNCHANGED <<bgVars, debVars, parseVars, waitVars, panelVars, codeVars, domVars>>
    /\ timers # {}
    /\ \A tm \in timers : ~Due(tm)
    /\ \E tm \in timers :
          /\ \A other \in timers : tm.deadline <= other.deadline
          /\ now' = tm.deadline
    /\ UNCHANGED <<rateLimitInfo, op, apiKey, pc, attempt, lastError, timers,
                   response, outcome, callId, hist, sentInWindow, callsLeft, ticksLeft>>

\* the page sits idle until the rate-limit window has passed
ClockIdle ==
    /\ UNCHANGED <<bgVars, debVars, parseVars, waitVars, panelVars, codeVars, domVars>>
    /\ pc = "idle"
    /\ timers = {}
    /\ callsLeft > 0
    /\ now <= rateLimitInfo.resetTime
    /\ now' = rateLimitInfo.resetTime + Tick
    /\ UNCHANGED <<rateLimitInfo, op, apiKey, pc, attempt, lastError, timers,
                   response, outcome, callId, hist, sentInWindow, callsLeft, ticksLeft>>

-----------------------------------------------------------------------------

InitClient(rpms, calls, ticks) ==
    /\ now = 0
    /\ rateLimitInfo \in { [requestsPerMinute |-> r, currentRequests |-> 0,
                            resetTime |-> RATE_WINDOW] : r \in rpms }
    /\ op = "none"
    /\ apiKey = StoredKey
    /\ pc = "idle"
    /\ attempt = 0
    /\ lastError = Null
    /\ timers = {}
    /\ response = NoResponse
    /\ outcome = NoOutcome
    /\ callId = 0
    /\ hist = EmptyHist
    /\ sentInWindow = 0
    /\ callsLeft = calls
    /\ ticksLeft = ticks

-----------------------------------------------------------------------------
(* Background service: settings in chrome.storage.local *)

\* JavaScript's undefined, where an object is expected
Undefined == [undefined |-> TRUE]

NoData == [f \in {} |-> TRUE]

SettingsFields == {"theme", "autoAnalyze", "showNotifications", "analysisDelay"}

DEFAULT_SETTINGS ==
    [theme |-> "auto", autoAnalyze |-> TRUE, showNotifications |-> TRUE,
     analysisDelay |-> 2000]

\* message.data of SET_SETTINGS: a Partial<ExtensionSettings>
Partials ==
    { [f \in {"theme"} |-> "dark"],
      [f \in {"autoAnalyze"} |-> FALSE],
      [f \in {"theme", "autoAnalyze"} |-> IF f = "theme" THEN "light" ELSE TRUE],
      [f \in {"showNotifications"} |-> FALSE] }

Messages ==
    { [type |-> "SET_SETTINGS", data |-> p] : p \in Partials }
    \cup { [type |-> "GET_SETTINGS", data |-> NoData] }

\* { ...currentSettings, ...settings }
Spread(current, settings) ==
    [f \in SettingsFields |-> IF f \in DOMAIN settings THEN settings[f] ELSE current[f]]

\* await this.getSettings() || DEFAULT_SETTINGS
CurrentOrDefault(stored) == IF stored = Undefined THEN DEFAULT_SETTINGS ELSE stored

MaxMessages == 2             \* messages delivered to the background service

HandlerIds == 1..Len(handlers)

\* the onMessage listener runs: handleMessage starts and, for SET_SETTINGS and
\* GET_SETTINGS, awaits chrome.storage.local.get
Receive(m) ==
    /\ UNCHANGED <<clientVars, debVars, parseVars, waitVars, panelVars, codeVars, domVars>>
    /\ Len(handlers) < MaxMessages
    /\ handlers' = Append(handlers, [msg |-> m, pc |-> "reading",
                                     newSettings |-> Undefined, reply |-> Undefined])
    /\ baseSettings' = IF handlers = <<>>
                       THEN [settings |-> CurrentOrDefault(storageSettings),
                             initialized |-> initPc = "done"]
                       ELSE baseSettings
    /\ UNCHANGED <<storageSettings, initPc>>

\* storage.local.get resolves: GET_SETTINGS answers; setSettings merges and
\* awaits chrome.storage.local.set
ReadDone(h) ==
    /\ UNCHANGED <<clientVars, debVars, parseVars, waitVars, panelVars, codeVars, domVars>>
    /\ h \in HandlerIds
    /\ handlers[h].pc = "reading"
    /\ handlers' =
         IF handlers[h].msg.type = "GET_SETTINGS"
         THEN [handlers EXCEPT ![h].pc = "done",
                               ![h].reply = [success |-> TRUE, data |-> storageSettings]]
         ELSE [handlers EXCEPT ![h].pc = "writing",
                               ![h].newSettings = Spread(CurrentOrDefault(storageSettings),
                                                         handlers[h].msg.data)]
    /\ UNCHANGED <<storageSettings, initPc, baseSettings>>

\* storage.local.set resolves: the settings are stored, sendResponse
WriteDone(h) ==
    /\ UNCHANGED <<clientVars, debVars, parseVars, waitVars, panelVars, codeVars, domVars>>
    /\ h \in HandlerIds
    /\ handlers[h].pc = "writing"
    /\ storageSettings' = handlers[h].newSettings
    /\ handlers' = [handlers EXCEPT ![h].pc = "done",
                                    ![h].reply = [success |-> TRUE, data |-> Undefined]]
    /\ UNCHANGED <<initPc, baseSettings>>

\* initializeExtension: getSettings, and setDefaultSettings when none is stored
InitRead ==
    /\ UNCHANGED <<clientVars, debVars, parseVars, waitVars, panelVars, codeVars, domVars>>
    /\ initPc = "reading"
    /\ initPc' = IF storageSettings = Undefined THEN "writing" ELSE "done"
    /\ UNCHANGED <<storageSettings, handlers, baseSettings>>

InitWrite ==
    /\ UNCHANGED <<clientVars, debVars, parseVars, waitVars, panelVars, codeVars, domVars>>
    /\ initPc = "writing"
    /\ storageSettings' = DEFAULT_SETTINGS
    /\ initPc' = "done"
    /\ UNCHANGED <<handlers, baseSettings>>

InitBackground ==
    /\ storageSettings \in {Undefined, DEFAULT_SETTINGS}
    /\ initPc = "reading"
    /\ handlers = <<>>
    /\ baseSettings = Undefined

-----------------------------------------------------------------------------
(* Helpers.debounce *)

MaxDebCalls == 3             \* calls of the debounced function
MaxDebTicks == 4             \* clock ticks on the page
OBSERVE_WAIT == 1000         \* the wait observeCodeChanges passes
ANALYSIS_DELAY == 2000       \* the wait setupCodeMonitoring passes by default
DebTick == OBSERVE_WAIT      \* ms per clock tick on the page

DebArgs == {"a", "b"}

ClearTimeoutNothing(id) == debTimers

\* clearTimeout(id)
ClearTimeout(id) == { tm \in debTimers : tm.id # id }

NoCall == [at |-> 0, args |-> Null, n |-> 0]

\* debounced(...args): clear the pending timer, setTimeout(later, wait)
DebouncedCall(args) ==
    /\ UNCHANGED <<clientVars, bgVars, parseVars, waitVars, panelVars, codeVars, domVars>>
    /\ debBudget.calls > 0
    /\ LET id == debLog.calls + 1
       IN /\ debTimers' = ClearTimeout(timeout)
                            \cup {[id |-> id, deadline |-> debClock + wait, args |-> args]}
          /\ timeout' = id
          /\ debLog' = [debLog EXCEPT
                          !.calls = id,
                          !.lastCall = [at |-> debClock, args |-> args, n |-> id],
                          !.bursts = IF debLog.open THEN @ ELSE @ + 1,
                          !.open = TRUE]
    /\ debBudget' = [debBudget EXCEPT !.calls = @ - 1]
    /\ UNCHANGED <<impl, wait, debClock>>

\* the timer fires: later() runs and invokes func(...args)
LaterFire(tm) ==
    /\ UNCHANGED <<clientVars, bgVars, parseVars, waitVars, panelVars, codeVars, domVars>>
    /\ tm \in debTimers
    /\ tm.deadline <= debClock
    /\ IF impl = "ts"
       THEN /\ timeout' = Null
            /\ debTimers' = debTimers \ {tm}
       ELSE /\ timeout' = timeout
            /\ debTimers' = ClearTimeout(timeout) \ {tm}
    /\ debLog' = [debLog EXCEPT
                    !.invocations = @ + 1,
                    !.invoked = [at |-> debClock, args |-> tm.args, lastCall |-> debLog.lastCall],
                    !.open = FALSE]
    /\ UNCHANGED <<impl, wait, debClock, debBudget>>

\* the page's clock advances; timers fire on time
DebClockTick ==
    /\ UNCHANGED <<clientVars, bgVars, parseVars, waitVars, panelVars, codeVars, domVars>>
    /\ debBudget.ticks > 0
    /\ \A tm \in debTimers : tm.deadline > debClock
    /\ debClock' = debClock + DebTick
    /\ debBudget' = [debBudget EXCEPT !.ticks = @ - 1]
    /\ UNCHANGED <<impl, wait, timeout, debTimers, debLog>>

InitDebounce(impls, waits, calls, ticks) ==
    /\ impl \in impls
    /\ wait \in waits
    /\ timeout = Null
    /\ debTimers = {}
    /\ debClock = 0
    /\ debLog = [calls |-> 0, lastCall |-> NoCall, bursts |-> 0, open |-> FALSE,
                 invocations |-> 0, invoked |-> [at |-> 0, args |-> Null, lastCall |-> NoCall]]
    /\ debBudget = [calls |-> calls, ticks |-> ticks]

-----------------------------------------------------------------------------
(* Response parsers.  A response text is a sequence of tokens: the JSON     *)
(* punctuation, the literals null, 5 and "abc", a member name with its      *)
(* colon, a markdown fence ``` and a run of plain words.                    *)

MaxLen == 4                  \* tokens in a response text

KeyTokens == {"errors:", "suggestions:", "code:", "timeComplexity:"}
Tokens == {"{", "}", "[", "]", "null", "5", "str", "fence", "txt"} \cup KeyTokens

KeyName(tok) ==
    CASE tok = "errors:"         -> "errors"
      [] tok = "suggestions:"    -> "suggestions"
      [] tok = "code:"           -> "code"
      [] tok = "timeComplexity:" -> "timeComplexity"

\* the lower-cased characters a token stands for, as the words the parsers
\* search for
WordsOf(tok) ==
    CASE tok = "errors:"         -> {"error"}
      [] tok = "timeComplexity:" -> {"complexity"}
      [] tok = "txt"             -> {"optimize"}
      [] OTHER                   -> {}

\* text.includes(word)
includes(text, word) == \E i \in 1..Len(text) : word \in WordsOf(text[i])

(* JavaScript values *)
JUndefined == [t |-> "undefined"]
JNull == [t |-> "null"]
JNum(n) == [t |-> "number", n |-> n]
JStr(str) == [t |-> "string", s |-> str]
JArr(items) == [t |-> "array", items |-> items]
JObj(members) == [t |-> "object", members |-> members]
NoMembers == [k \in {} |-> JNull]

\* parsed.name of a value that is neither null nor undefined
Member(v, name) ==
    IF v.t = "object" /\ name \in DOMAIN v.members THEN v.members[name] ELSE JUndefined

Truthy(v) == v.t \notin {"undefined", "null"}

\* v || d
OrDefault(v, d) == IF Truthy(v) THEN v ELSE d

(* JSON.parse over the tokens: a literal, an array of at most one value, an *)
(* object of at most one member; anything else is a SyntaxError.            *)
ParseError == [ok |-> FALSE, val |-> JUndefined, next |-> 0]

RECURSIVE ParseValue(_, _)
ParseValue(text, i) ==
    IF i > Len(text) THEN ParseError
    ELSE LET tok == text[i] IN
      CASE tok = "null" -> [ok |-> TRUE, val |-> JNull, next |-> i + 1]
        [] tok = "5"    -> [ok |-> TRUE, val |-> JNum("5"), next |-> i + 1]
        [] tok = "str"  -> [ok |-> TRUE, val |-> JStr("abc"), next |-> i + 1]
        [] tok = "["    ->
             IF i + 1 <= Len(text) /\ text[i + 1] = "]"
             THEN [ok |-> TRUE, val |-> JArr(<<>>), next |-> i + 2]
             ELSE LET item == ParseValue(text, i + 1) IN
                  IF item.ok /\ item.next <= Len(text) /\ text[item.next] = "]"
                  THEN [ok |-> TRUE, val |-> JArr(<<item.val>>), next |-> item.next + 1]
                  ELSE ParseError
        [] tok = "{"    ->
             IF i + 1 <= Len(text) /\ text[i + 1] = "}"
             THEN [ok |-> TRUE, val |-> JObj(NoMembers), next |-> i + 2]
             ELSE IF i + 1 <= Len(text) /\ text[i + 1] \in KeyTokens
                  THEN LET member == ParseValue(text, i + 2) IN
                       IF member.ok /\ member.next <= Len(text) /\ text[member.next] = "}"
                       THEN [ok |-> TRUE,
                             val |-> JObj([k \in {KeyName(text[i + 1])} |-> member.val]),
                             next |-> member.next + 1]
                       ELSE ParseError
                  ELSE ParseError
        [] OTHER -> ParseError

\* JSON.parse(text): the value, or a SyntaxError
JSONparse(text) ==
    LET r == ParseValue(text, 1) IN
    IF r.ok /\ r.next = Len(text) + 1
    THEN [ok |-> TRUE, val |-> r.val]
    ELSE [ok |-> FALSE, val |-> JUndefined]

(* The extraction the flash build does before JSON.parse *)
Indices(text, tok) == { i \in 1..Len(text) : text[i] = tok }
Min(S) == CHOOSE x \in S : \A y \in S : x <= y
Max(S) == CHOOSE x \in S : \A y \in S : x >= y

\* /```(?:json)?\s*(\{[\s\S]*?\})\s*```/ : the first fence followed by an
\* opening brace, up to the first closing brace that a fence follows
FencedStarts(text) ==
    { i \in Indices(text, "fence") :
        /\ i + 1 <= Len(text) /\ text[i + 1] = "{"
        /\ \E j \in Indices(text, "}") : j > i + 1 /\ j + 1 <= Len(text) /\ text[j + 1] = "fence" }

FencedJson(text) ==
    LET i == Min(FencedStarts(text))
        j == Min({ k \in Indices(text, "}") : k > i + 1 /\ k + 1 <= Len(text) /\ text[k + 1] = "fence" })
    IN SubSeq(text, i + 1, j)

\* /\{[\s\S]*\}/ : from the first opening brace to the last closing brace
BracedStarts(text) ==
    { i \in Indices(text, "{") : \E j \in Indices(text, "}") : j > i }

BracedJson(text) ==
    SubSeq(text, Min(BracedStarts(text)), Max(Indices(text, "}")))

ExtractJson(text) ==
    IF FencedStarts(text) # {} THEN FencedJson(text)
    ELSE IF BracedStarts(text) # {} THEN BracedJson(text)
    ELSE text

\* the text the build hands to JSON.parse
JsonSource(build, text) == IF build = "flash" THEN ExtractJson(text) ELSE text

Returned(v) == [threw |-> FALSE, fallback |-> FALSE, value |-> v]
Fallback(v) == [threw |-> FALSE, fallback |-> TRUE, value |-> v]
NotParsed == [threw |-> FALSE, fallback |-> FALSE, value |-> JUndefined, none |-> TRUE]

\* the try block up to the first read of a member of parsed: a SyntaxError
\* from JSON.parse or a TypeError when parsed is null, both caught
TryParse(build, text) ==
    LET r == JSONparse(JsonSource(build, text)) IN
    [ok |-> r.ok /\ r.val.t # "null", val |-> r.val]

\* a template string that quotes the start of the response text
Excerpt(prefix, text) == JStr(<<prefix, text>>)

\* parseAnalysisResponse
parseAnalysisResponse(build, text) ==
    LET p == TryParse(build, text) IN
    IF p.ok
    THEN Returned([errors |-> OrDefault(Member(p.val, "errors"), JArr(<<>>)),
                   warnings |-> OrDefault(Member(p.val, "warnings"), JArr(<<>>)),
                   suggestions |-> OrDefault(Member(p.val, "suggestions"), JArr(<<>>)),
                   confidence |-> OrDefault(Member(p.val, "confidence"), JNum("0.5"))])
    ELSE IF build = "pro"
    THEN Fallback([errors |-> JArr(<<>>), warnings |-> JArr(<<>>),
                   suggestions |-> JArr(<<JStr("Failed to parse analysis response")>>),
                   confidence |-> JNum("0")])
    ELSE LET found ==
               (IF includes(text, "error") \/ includes(text, "issue")
                THEN <<JStr("Code may have errors that need attention")>> ELSE <<>>)
               \o (IF includes(text, "optimize") \/ includes(text, "improve")
                   THEN <<JStr("Code could be optimized for better performance")>> ELSE <<>>)
               \o (IF includes(text, "complexity")
                   THEN <<JStr("Consider the time and space complexity of your solution")>>
                   ELSE <<>>)
         IN Fallback([errors |-> JArr(<<>>), warnings |-> JArr(<<>>),
                      suggestions |-> JArr(IF found = <<>>
                                           THEN <<Excerpt("Analysis: ", text)>> ELSE found),
                      confidence |-> JNum("0.3")])

\* the tokens between the first two fences (the code block), or the text
CodeBlock(text) ==
    LET fences == Indices(text, "fence") IN
    IF Cardinality(fences) >= 2
    THEN LET i == Min(fences) IN SubSeq(text, i + 1, Min(fences \ {i}) - 1)
    ELSE text

\* parseSolutionResponse
parseSolutionResponse(build, text, language) ==
    LET p == TryParse(build, text) IN
    IF p.ok
    THEN Returned([code |-> OrDefault(Member(p.val, "code"), JStr("")),
                   language |-> JStr(language),
                   approach |-> OrDefault(Member(p.val, "approach"), JStr("Unknown approach")),
                   timeComplexity |-> OrDefault(Member(p.val, "timeComplexity"), JStr("O(?)")),
                   spaceComplexity |-> OrDefault(Member(p.val, "spaceComplexity"), JStr("O(?)"))])
    ELSE IF build = "pro"
    THEN Fallback([code |-> JStr(text), language |-> JStr(language),
                   approach |-> JStr("Generated solution"),
                   timeComplexity |-> JStr("O(?)"), spaceComplexity |-> JStr("O(?)")])
    ELSE Fallback([code |-> JStr(CodeBlock(text)), language |-> JStr(language),
                   approach |-> JStr("Generated LeetCode solution (parsed from text)"),
                   timeComplexity |-> JStr("O(?)"), spaceComplexity |-> JStr("O(?)")])

UnknownComplexity ==
    JObj([k \in {"best", "average", "worst"} |-> JStr("O(?)")])

\* parseComplexityResponse; no token holds an O(...) expression, so the flash
\* build's search of the plain text finds none
parseComplexityResponse(build, text) ==
    LET p == TryParse(build, text) IN
    IF p.ok
    THEN Returned([timeComplexity |-> OrDefault(Member(p.val, "timeComplexity"), UnknownComplexity),
                   spaceComplexity |-> OrDefault(Member(p.val, "spaceComplexity"), JStr("O(?)")),
                   explanation |-> OrDefault(Member(p.val, "explanation"),
                                             JStr("No explanation provided"))])
    ELSE IF build = "pro"
    THEN Fallback([timeComplexity |-> UnknownComplexity, spaceComplexity |-> JStr("O(?)"),
                   explanation |-> JStr("Failed to parse complexity analysis")])
    ELSE Fallback([timeComplexity |-> UnknownComplexity, spaceComplexity |-> JStr("O(?)"),
                   explanation |-> Excerpt("Extracted from response: ", text)])

Suggestion(type, description, impact) ==
    JObj([k \in {"type", "description", "impact"} |->
            CASE k = "type" -> JStr(type) [] k = "description" -> description
              [] k = "impact" -> JStr(impact)])

\* parseOptimizationResponse
parseOptimizationResponse(build, text) ==
    LET p == TryParse(build, text) IN
    IF p.ok
    THEN Returned(OrDefault(Member(p.val, "suggestions"), JArr(<<>>)))
    ELSE IF build = "pro"
    THEN Fallback(JArr(<<Suggestion("implementation",
                                    JStr("Failed to parse optimization suggestions"), "low")>>))
    ELSE LET found ==
               (IF includes(text, "algorithm") /\ includes(text, "improve")
                THEN <<Suggestion("algorithm",
                         JStr("Consider algorithm optimization based on the response"), "medium")>>
                ELSE <<>>)
               \o (IF includes(text, "data structure") \/ includes(text, "hash")
                      \/ includes(text, "tree")
                   THEN <<Suggestion("data-structure",
                            JStr("Consider using more efficient data structures"), "high")>>
                   ELSE <<>>)
               \o (IF includes(text, "time complexity") \/ includes(text, "o(n")
                      \/ includes(text, "optimize")
                   THEN <<Suggestion("implementation",
                            JStr("Time complexity can be improved"), "high")>>
                   ELSE <<>>)
         IN Fallback(JArr(IF found = <<>>
                          THEN <<Suggestion("implementation",
                                            Excerpt("Optimization insight: ", text), "low")>>
                          ELSE found))

Parsed(parser, result) == [parser |-> parser] @@ result

\* analyzeCode hands the response text to parseAnalysisResponse
ParseAnalysis ==
    /\ UNCHANGED <<clientVars, bgVars, debVars, waitVars, panelVars, codeVars, domVars>>
    /\ "none" \in DOMAIN parseResult
    /\ parseResult' = Parsed("analysis", parseAnalysisResponse(parserBuild, responseText))
    /\ UNCHANGED <<parserBuild, responseText>>

\* generateSolution hands it to parseSolutionResponse
ParseSolution(language) ==
    /\ UNCHANGED <<clientVars, bgVars, debVars, waitVars, panelVars, codeVars, domVars>>
    /\ "none" \in DOMAIN parseResult
    /\ parseResult' = Parsed("solution", parseSolutionResponse(parserBuild, responseText, language))
    /\ UNCHANGED <<parserBuild, responseText>>

\* analyzeComplexity hands it to parseComplexityResponse
ParseComplexity ==
    /\ UNCHANGED <<clientVars, bgVars, debVars, waitVars, panelVars, codeVars, domVars>>
    /\ "none" \in DOMAIN parseResult
    /\ parseResult' = Parsed("complexity", parseComplexityResponse(parserBuild, responseText))
    /\ UNCHANGED <<parserBuild, responseText>>

\* optimizeCode hands it to parseOptimizationResponse
ParseOptimization ==
    /\ UNCHANGED <<clientVars, bgVars, debVars, waitVars, panelVars, codeVars, domVars>>
    /\ "none" \in DOMAIN parseResult
    /\ parseResult' = Parsed("optimization", parseOptimizationResponse(parserBuild, responseText))
    /\ UNCHANGED <<parserBuild, responseText>>

\* the non-empty texts of at most MaxLen tokens
Texts == UNION { [1..n -> Tokens] : n \in 1..MaxLen }

InitParse(builds, texts) ==
    /\ parserBuild \in builds
    /\ responseText \in texts
    /\ parseResult = NotParsed

-----------------------------------------------------------------------------
(* Helpers.waitForElement: a promise that polls document.querySelector      *)
(* every POLL_INTERVAL ms.  The page may add and remove the element at any  *)
(* time; a setTimeout callback runs at its deadline or up to one WaitTick   *)
(* later.                                                                   *)

POLL_INTERVAL == 100
WaitTick == POLL_INTERVAL \div 2
MaxWaitSteps == 4            \* the longest timeout argument, in WaitTicks
MaxDomChanges == 2           \* times the page adds or removes the element

EDITOR_SELECTOR == ".monaco-editor, .CodeMirror, .ace_editor"

WaitTimeouts == { k * WaitTick : k \in 0..MaxWaitSteps }

NoTimer == -1

\* new Error(`Element ${selector} not found within ${timeout}ms`)
NotFoundError(selector, ms) ==
    [message |-> <<"Element ", selector, " not found within ", ms, "ms">>]

\* Date.now() - startTime > timeout
TimedOutStrictly(elapsed, ms) == elapsed > ms

\* Date.now() - startTime >= timeout
TimedOut(elapsed, ms) == elapsed >= ms

\* checkForElement, run at time t by a promise w that is not yet settled
checkForElement(w, t, element) ==
    IF element
    THEN [w EXCEPT !.pc = "resolved", !.timer = NoTimer, !.settles = @ + 1]
    ELSE IF TimedOut(t - w.startTime, w.timeoutMs)
    THEN [w EXCEPT !.pc = "rejected", !.timer = NoTimer, !.settles = @ + 1,
                   !.error = NotFoundError(w.selector, w.timeoutMs)]
    ELSE [w EXCEPT !.pc = "polling", !.timer = t + POLL_INTERVAL]

\* what a poll at time t observes, whatever checkForElement makes of it
Observe(w, log, t, element) ==
    [polls |-> log.polls + 1,
     lastPollAt |-> t,
     matched |-> element,
     elapsed |-> t - w.startTime,
     \* an earlier poll, which did not settle, saw a match or a timeout
     earlierMatch |-> log.earlierMatch \/ (log.polls > 0 /\ log.matched),
     earlierExpired |-> log.earlierExpired
                        \/ (log.polls > 0 /\ log.elapsed >= w.timeoutMs)]

NoPolls ==
    [polls |-> 0, lastPollAt |-> 0, matched |-> FALSE, elapsed |-> 0,
     earlierMatch |-> FALSE, earlierExpired |-> FALSE]

\* Helpers.waitForElement(selector, ms): the executor runs checkForElement at once
WaitForElement(selector, ms) ==
    /\ UNCHANGED <<clientVars, bgVars, debVars, parseVars, panelVars, codeVars, domVars>>
    /\ waitFor.pc = "idle"
    /\ LET w == [waitFor EXCEPT !.selector = selector, !.timeoutMs = ms,
                                !.startTime = waitEnv.now]
       IN /\ waitFor' = checkForElement(w, waitEnv.now, waitEnv.present)
          /\ waitLog' = Observe(w, waitLog, waitEnv.now, waitEnv.present)
    /\ UNCHANGED waitEnv

\* the setTimeout(checkForElement, 100) callback
PollFire ==
    /\ UNCHANGED <<clientVars, bgVars, debVars, parseVars, panelVars, codeVars, domVars>>
    /\ waitFor.timer # NoTimer
    /\ waitEnv.now >= waitFor.timer
    /\ waitFor' = checkForElement(waitFor, waitEnv.now, waitEnv.present)
    /\ waitLog' = Observe(waitFor, waitLog, waitEnv.now, waitEnv.present)
    /\ UNCHANGED waitEnv

\* time passes while a poll is pending
WaitClockTick ==
    /\ UNCHANGED <<clientVars, bgVars, debVars, parseVars, panelVars, codeVars, domVars>>
    /\ waitFor.timer # NoTimer
    /\ waitEnv.now < waitFor.timer + WaitTick
    /\ waitEnv' = [waitEnv EXCEPT !.now = @ + WaitTick]
    /\ UNCHANGED <<waitFor, waitLog>>

\* the page adds the element the selector matches
ElementAppears ==
    /\ UNCHANGED <<clientVars, bgVars, debVars, parseVars, panelVars, codeVars, domVars>>
    /\ ~waitEnv.present
    /\ waitEnv.changes > 0
    /\ waitEnv' = [waitEnv EXCEPT !.present = TRUE, !.changes = @ - 1]
    /\ UNCHANGED <<waitFor, waitLog>>

\* the page removes it
ElementDisappears ==
    /\ UNCHANGED <<clientVars, bgVars, debVars, parseVars, panelVars, codeVars, domVars>>
    /\ waitEnv.present
    /\ waitEnv.changes > 0
    /\ waitEnv' = [waitEnv EXCEPT !.present = FALSE, !.changes = @ - 1]
    /\ UNCHANGED <<waitFor, waitLog>>

InitWaitFor(presents, changes) ==
    /\ waitFor = [pc |-> "idle", selector |-> EDITOR_SELECTOR, timeoutMs |-> 0,
                  startTime |-> 0, timer |-> NoTimer, settles |-> 0, error |-> Null]
    /\ waitEnv \in [now : {0}, present : presents, changes : {changes}]
    /\ waitLog = NoPolls

-----------------------------------------------------------------------------
(* The content script: the injected analyzer panel (LeetCodeAnalyzer), its  *)
(* message listener, and the messages it sends to the background service.   *)
(* The document holds the panel's elements once injected and the elements   *)
(* of the host page.  The stylesheet dist/content/content.css is not part   *)
(* of the sources: the display it gives the panel is either value.          *)

MaxClicks == 3               \* clicks of the user on the panel
MaxTriggers == 2             \* messages the popup sends to the content script

Tabs == {"analyze", "solution", "complexity", "optimize"}

\* the class of the action button in a tab's content
ActionClass(tab) ==
    CASE tab = "analyze"    -> "lca-analyze-btn"
      [] tab = "solution"   -> "lca-solution-btn"
      [] tab = "complexity" -> "lca-complexity-btn"
      [] tab = "optimize"   -> "lca-optimize-btn"

Element(owner, classes, attr, val) ==
    [owner |-> owner, cls |-> classes, attr |-> attr, val |-> val]

NoAttr == "none"

\* the buttons createDropdown writes into dropdown.innerHTML
PanelElements ==
    { Element("panel", {"lca-tab"}, "data-tab", tab) : tab \in Tabs }
    \cup { Element("panel", {"lca-action-btn", ActionClass(tab)}, NoAttr, tab) : tab \in Tabs }
    \cup { Element("panel", {"lca-settings-btn"}, NoAttr, ""),
           Element("panel", {"lca-close-btn"}, NoAttr, "") }

\* elements of the host page that the listener's selectors would match
PageElements ==
    { Element("page", {"lca-tab-btn"}, "data-tab", "analyze"),
      Element("page", {"lca-action-btn"}, "data-action", "analyze") }

\* a selector .class or .class[attr="val"]
Selector(class, attr, val) == [cls |-> class, attr |-> attr, val |-> val]

Matches(el, sel) ==
    /\ sel.cls \in el.cls
    /\ sel.attr # NoAttr => (el.attr = sel.attr /\ el.val = sel.val)

Document(p) == (IF p.dropdown THEN PanelElements ELSE {}) \cup p.page

\* document.querySelector(sel): the matching elements (none: null)
querySelector(p, sel) == { el \in Document(p) : Matches(el, sel) }

\* the selectors of the TRIGGER_ANALYSIS listener
TabButtonSelector(action) == Selector("lca-tab-btn", "data-tab", action)
ActionButtonSelector(action) ==
    Selector("lca-action-btn", "data-action",
             IF action = "complexity" THEN "analyze-complexity" ELSE action)

\* the panel is rendered: its inline style.display, else the stylesheet's
Displayed(p) ==
    /\ p.dropdown
    /\ (IF p.styleDisplay = "" THEN p.cssDisplay ELSE p.styleDisplay) = "block"

\* toggleDropdown
toggleDropdown(p) ==
    IF ~p.dropdown THEN p
    ELSE [p EXCEPT !.isVisible = ~p.isVisible,
                   !.styleDisplay = IF ~p.isVisible THEN "block" ELSE "none"]

\* switchTab
switchTab(p, tabName) ==
    IF ~p.dropdown THEN p ELSE [p EXCEPT !.activeTab = tabName]

\* element.click(): the listener setupDropdownEvents attached, if any
click(p, el) ==
    IF el.owner # "panel" THEN p
    ELSE IF "lca-tab" \in el.cls THEN switchTab(p, el.val)
    ELSE IF "lca-close-btn" \in el.cls THEN toggleDropdown(p)
    ELSE IF "lca-action-btn" \in el.cls
    THEN [p EXCEPT !.handlerCalls[el.val] = @ + 1]
    ELSE p

\* injectUI
InjectUI ==
    /\ UNCHANGED <<clientVars, bgVars, debVars, parseVars, waitVars, codeVars, domVars>>
    /\ ~panel.isInjected
    /\ panel' = [panel EXCEPT !.dropdown = TRUE, !.isInjected = TRUE]
    /\ UNCHANGED <<runtime, triggers>>

\* the user clicks a button of the displayed panel
Click(el) ==
    /\ UNCHANGED <<clientVars, bgVars, debVars, parseVars, waitVars, codeVars, domVars>>
    /\ Displayed(panel)
    /\ el \in PanelElements
    /\ panel.clicksLeft > 0
    /\ LET p == [panel EXCEPT !.clicksLeft = @ - 1] IN
       IF "lca-settings-btn" \in el.cls
       THEN \* showSettings
            /\ runtime' = [runtime EXCEPT !.toBackground = Append(@, "OPEN_SETUP")]
            /\ panel' = p
       ELSE /\ panel' = click(p, el)
            /\ UNCHANGED runtime
    /\ UNCHANGED triggers

TriggerResponse(action, injected, success, message, handled) ==
    [action |-> action, injected |-> injected, success |-> success,
     message |-> message, handled |-> handled]

\* the content script's onMessage listener
ContentReceive(type, action) ==
    /\ UNCHANGED <<clientVars, bgVars, debVars, parseVars, waitVars, codeVars, domVars>>
    /\ triggers.left > 0
    /\ IF type = "PING"
       THEN /\ triggers' = [triggers EXCEPT !.left = @ - 1,
                  !.responses = Append(@, TriggerResponse("ping", panel.isInjected, TRUE, "loaded", FALSE))]
            /\ UNCHANGED panel
       ELSE LET found == querySelector(panel, TabButtonSelector(action)) IN
            IF found # {}
            THEN /\ panel' = click(panel, CHOOSE el \in found : TRUE)
                 /\ triggers' = [triggers EXCEPT !.left = @ - 1,
                       !.pending = Append(@, [action |-> action, injected |-> panel.isInjected,
                                              calls |-> panel.handlerCalls[action]])]
            ELSE /\ triggers' = [triggers EXCEPT !.left = @ - 1,
                       !.responses = Append(@, TriggerResponse(action, panel.isInjected, FALSE,
                                                               "Analyzer UI not loaded", FALSE))]
                 /\ UNCHANGED panel
    /\ UNCHANGED runtime

\* the listener's setTimeout(..., 100) callback
TriggerTimeout ==
    /\ UNCHANGED <<clientVars, bgVars, debVars, parseVars, waitVars, codeVars, domVars>>
    /\ triggers.pending # <<>>
    /\ LET t == Head(triggers.pending)
           found == querySelector(panel, ActionButtonSelector(t.action))
           p == IF found # {} THEN click(panel, CHOOSE el \in found : TRUE) ELSE panel
       IN /\ panel' = p
          /\ triggers' = [triggers EXCEPT !.pending = Tail(@),
                !.responses = Append(@,
                    IF found # {}
                    THEN TriggerResponse(t.action, t.injected, TRUE,
                             IF t.action = "analyze" THEN "Analysis triggered"
                             ELSE "Complexity analysis triggered",
                             p.handlerCalls[t.action] > t.calls)
                    ELSE TriggerResponse(t.action, t.injected, FALSE,
                             IF t.action = "analyze" THEN "Analyze button not found"
                             ELSE "Complexity button not found", FALSE))]
    /\ UNCHANGED runtime

\* the message types BackgroundService.handleMessage has a case for
HandledTypes ==
    {"GET_API_KEY", "SET_API_KEY", "TEST_API_KEY", "PING", "GET_SETTINGS",
     "SET_SETTINGS", "ANALYZE_CODE"}

\* handleMessage for the messages that carry no data: the response, and
\* whether chrome.tabs.create opened the setup page
handleMessage(type) ==
    IF type \in HandledTypes
    THEN [type |-> type, success |-> TRUE, error |-> Null, openedSetup |-> FALSE]
    ELSE [type |-> type, success |-> FALSE,
          error |-> <<"Unknown message type: ", type>>, openedSetup |-> FALSE]

\* the background's onMessage listener takes the next message
BackgroundHandle ==
    /\ UNCHANGED <<clientVars, bgVars, debVars, parseVars, waitVars, codeVars, domVars>>
    /\ runtime.toBackground # <<>>
    /\ runtime' = [runtime EXCEPT !.toBackground = Tail(@),
                      !.handled = Append(@, handleMessage(Head(runtime.toBackground)))]
    /\ UNCHANGED <<panel, triggers>>

\* the content script asks for the key and the settings when it starts
ContentLoad ==
    /\ UNCHANGED <<clientVars, bgVars, debVars, parseVars, waitVars, codeVars, domVars>>
    /\ ~runtime.loaded
    /\ runtime' = [runtime EXCEPT !.loaded = TRUE,
                      !.toBackground = @ \o <<"GET_SETTINGS", "GET_API_KEY">>]
    /\ UNCHANGED <<panel, triggers>>

\* onInstalled with reason 'install': handleFirstInstall opens the setup page
FirstInstall ==
    /\ UNCHANGED <<clientVars, bgVars, debVars, parseVars, waitVars, codeVars, domVars>>
    /\ ~runtime.installed
    /\ runtime' = [runtime EXCEPT !.installed = TRUE, !.setupPages = @ + 1]
    /\ UNCHANGED <<panel, triggers>>

InitPanel(pages, displays, clicks, count) ==
    /\ panel \in [dropdown : {FALSE}, isInjected : {FALSE}, isVisible : {FALSE},
                  activeTab : {"analyze"}, styleDisplay : {""}, cssDisplay : displays,
                  page : pages, handlerCalls : {[tab \in Tabs |-> 0]},
                  clicksLeft : {clicks}]
    /\ runtime = [toBackground |-> <<>>, handled |-> <<>>, setupPages |-> 0,
                  installed |-> clicks = 0, loaded |-> clicks = 0]
    /\ triggers = [left |-> count, pending |-> <<>>, responses |-> <<>>]

-----------------------------------------------------------------------------
(* CodeParser.parseCodeStructure and its basic syntax check.  A code string *)
(* is a sequence of characters: the six brackets and a letter.              *)

MaxCodeLen == 4              \* characters in a code string

Opening == {"(", "[", "{"}
Closing == {")", "]", "}"}
CodeChars == Opening \cup Closing \cup {"x"}

\* closingBrackets
closingBrackets(char) ==
    CASE char = ")" -> "(" [] char = "]" -> "[" [] char = "}" -> "{"

NoBrackets == [b \in Opening |-> 0]

\* the loop of detectJavaScriptErrors from character i on, with the counters
\* brackets; the result it returns
RECURSIVE ScanBrackets(_, _, _)
ScanBrackets(str, i, brackets) ==
    IF i > Len(str)
    THEN \E b \in Opening : brackets[b] # 0
    ELSE LET char == str[i] IN
         IF char \in Opening
         THEN ScanBrackets(str, i + 1, [brackets EXCEPT ![char] = @ + 1])
         ELSE IF char \in Closing
         THEN LET opening == closingBrackets(char)
                  counted == [brackets EXCEPT ![opening] = @ - 1]
              IN IF counted[opening] < 0 THEN TRUE
                 ELSE ScanBrackets(str, i + 1, counted)
         ELSE ScanBrackets(str, i + 1, brackets)

\* detectJavaScriptErrors
detectJavaScriptErrors(str) == ScanBrackets(str, 1, NoBrackets)

\* the languages whose check is detectJavaScriptErrors, and those without one
ScriptLanguages == {"javascript", "typescript"}
UncheckedLanguages == {"csharp", "go", "rust", "unknown"}

\* detectBasicSyntaxErrors
detectBasicSyntaxErrors(str, language) ==
    IF language \in ScriptLanguages THEN detectJavaScriptErrors(str) ELSE FALSE

NotChecked == [content |-> <<>>, language |-> "unknown", hasErrors |-> FALSE, none |-> TRUE]

\* parseCodeStructure
ParseCodeStructure(language) ==
    /\ UNCHANGED <<clientVars, bgVars, debVars, parseVars, waitVars, panelVars, domVars>>
    /\ "none" \in DOMAIN codeInfo
    /\ codeInfo' = [content |-> code, language |-> language,
                    hasErrors |-> detectBasicSyntaxErrors(code, language)]
    /\ UNCHANGED code

\* the code strings of at most MaxCodeLen characters
Codes == UNION { [1..n -> CodeChars] : n \in 0..MaxCodeLen }

InitCode(codes) ==
    /\ code \in codes
    /\ codeInfo = NotChecked

-----------------------------------------------------------------------------
(* CodeParser.extractCodeFromEditor and getCurrentCodeInfo (codeParser.ts). *)
(* The document is what each selector matches: a list of elements with      *)
(* their text.  A text is its lines' names, its leading whitespace and the  *)
(* length of the rest; trim removes the whitespace.                         *)

MaxSources == 2              \* selectors that match something in the document
MIN_CODE_LENGTH == 10
MIN_BLOCK_LENGTH == 50

Text(ids, pad, len, keyword) == [ids |-> ids, pad |-> pad, len |-> len, keyword |-> keyword]

EmptyText == Text(<<>>, 0, 0, FALSE)

\* text.trim()
trim(text) == [text EXCEPT !.pad = 0]

\* text.length
length(text) == text.pad + text.len

\* lines.map(line => line.textContent || '').join('\n') of one or two lines
Join(elements) ==
    IF Len(elements) = 1 THEN elements[1]
    ELSE Text(elements[1].ids \o elements[2].ids,
              elements[1].pad,
              elements[1].len + 1 + length(elements[2]),
              elements[1].keyword \/ elements[2].keyword)

\* the texts found on a page
ShortLine == Text(<<"short">>, 0, 5, FALSE)
IndentedLine == Text(<<"indented">>, 2, 10, FALSE)
CodeLine == Text(<<"line">>, 0, 11, FALSE)
ProseBlock == Text(<<"prose">>, 0, 51, FALSE)
CodeBlockText == Text(<<"block">>, 2, 51, TRUE)

\* the lists of elements a selector may match
ElementLists ==
    { <<ShortLine>>, <<IndentedLine>>, <<CodeLine>>, <<ProseBlock>>, <<CodeBlockText>>,
      <<ShortLine, ShortLine>>, <<ShortLine, CodeLine>> }

monacoSelectors ==
    << ".view-lines .view-line", ".monaco-editor .view-lines .view-line",
       ".view-line span", ".monaco-editor .view-line" >>

codeEditors ==
    << ".CodeMirror-code .CodeMirror-line", ".cm-content .cm-line", ".cm-editor .cm-line",
       "div[data-track-load=code_editor] .monaco-editor .view-line",
       "div[class*=monaco] .view-line", ".monaco-mouse-cursor-text .view-line",
       ".ace_content .ace_line", "textarea[data-schemapath]", "[data-mode-id] .view-line" >>

\* selector.includes('CodeMirror-line'), 'cm-line' or 'view-line'
JoinsLines(selector) ==
    selector \notin {".ace_content .ace_line", "textarea[data-schemapath]"}

\* the selectors that match only inside a .monaco-editor element
InsideMonaco ==
    { ".monaco-editor .view-lines .view-line", ".monaco-editor .view-line",
      "div[data-track-load=code_editor] .monaco-editor .view-line" }

Range(seq) == { seq[i] : i \in DOMAIN seq }

AllSelectors == Range(monacoSelectors) \cup Range(codeEditors) \cup {"textarea", "pre, code"}

\* document.querySelectorAll(selector)
querySelectorAll(d, selector) ==
    IF selector \in DOMAIN d.matches THEN d.matches[selector] ELSE <<>>

Found(str) == [found |-> TRUE, code |-> str]
NotFound == [found |-> FALSE, code |-> EmptyText]

\* the threshold applied to the text of an editor
LongerThanOrEqual(text, min) == length(text) >= min

LongerThan(text, min) == length(text) > min

\* the loop over monacoSelectors, from the i-th on
RECURSIVE FromMonaco(_, _)
FromMonaco(d, i) ==
    IF i > Len(monacoSelectors) THEN NotFound
    ELSE LET lines == querySelectorAll(d, monacoSelectors[i])
             str == trim(Join(lines))
         IN IF Len(lines) > 0 /\ length(str) > 0 /\ LongerThan(str, MIN_CODE_LENGTH)
            THEN Found(str)
            ELSE FromMonaco(d, i + 1)

\* the loop over codeEditors
RECURSIVE FromEditors(_, _)
FromEditors(d, i) ==
    IF i > Len(codeEditors) THEN NotFound
    ELSE LET elements == querySelectorAll(d, codeEditors[i])
             str == IF JoinsLines(codeEditors[i]) THEN Join(elements) ELSE elements[1]
         IN IF Len(elements) > 0 /\ length(str) > 0 /\ LongerThan(trim(str), MIN_CODE_LENGTH)
            THEN Found(trim(str))
            ELSE FromEditors(d, i + 1)

\* the loop over the textareas
RECURSIVE FromTextareas(_, _)
FromTextareas(textareas, i) ==
    IF i > Len(textareas) THEN NotFound
    ELSE IF length(textareas[i]) > 0 /\ LongerThan(trim(textareas[i]), MIN_CODE_LENGTH)
    THEN Found(trim(textareas[i]))
    ELSE FromTextareas(textareas, i + 1)

\* the loop over the pre and code elements
RECURSIVE FromCodeBlocks(_, _)
FromCodeBlocks(codeBlocks, i) ==
    IF i > Len(codeBlocks) THEN NotFound
    ELSE IF LongerThan(trim(codeBlocks[i]), MIN_BLOCK_LENGTH) /\ codeBlocks[i].keyword
    THEN Found(trim(codeBlocks[i]))
    ELSE FromCodeBlocks(codeBlocks, i + 1)

\* extractCodeFromEditor
extractCodeFromEditor(d) ==
    IF d.throws THEN EmptyText
    ELSE LET monaco == IF d.monaco THEN FromMonaco(d, 1) ELSE NotFound
             editors == FromEditors(d, 1)
             textareas == FromTextareas(querySelectorAll(d, "textarea"), 1)
             codeBlocks == FromCodeBlocks(querySelectorAll(d, "pre, code"), 1)
         IN IF monaco.found THEN monaco.code
            ELSE IF editors.found THEN editors.code
            ELSE IF textareas.found THEN textareas.code
            ELSE IF codeBlocks.found THEN codeBlocks.code
            ELSE EmptyText

NotExtracted == [called |-> "none", code |-> EmptyText, isNull |-> FALSE]

\* observeCodeChanges reads the code
ExtractCode ==
    /\ UNCHANGED <<clientVars, bgVars, debVars, parseVars, waitVars, panelVars, codeVars>>
    /\ extracted.called = "none"
    /\ extracted' = [called |-> "extractCodeFromEditor",
                     code |-> extractCodeFromEditor(dom), isNull |-> FALSE]
    /\ UNCHANGED dom

\* getCurrentCodeInfo: null, or the CodeInfo of the code
GetCurrentCodeInfo ==
    /\ UNCHANGED <<clientVars, bgVars, debVars, parseVars, waitVars, panelVars, codeVars>>
    /\ extracted.called = "none"
    /\ LET str == extractCodeFromEditor(dom) IN
       extracted' = [called |-> "getCurrentCodeInfo", code |-> str,
                     isNull |-> length(trim(str)) = 0]
    /\ UNCHANGED dom

\* the sets of at most n selectors
RECURSIVE SelectorSets(_)
SelectorSets(n) ==
    IF n = 0 THEN {{}}
    ELSE LET smaller == SelectorSets(n - 1) IN
         smaller \cup { s \cup {selector} : s \in smaller, selector \in AllSelectors }

InitDom(count, throwing) ==
    /\ \E s \in SelectorSets(count) :
         dom \in [matches : [s -> ElementLists],
                  monaco : IF s \cap InsideMonaco # {} THEN {TRUE} ELSE BOOLEAN,
                  throws : throwing]
    /\ extracted = NotExtracted

-----------------------------------------------------------------------------
(* Specifications *)

\* a component nobody uses: nothing is called, nothing is pending
QuietClient == InitClient({RPM_FLASH}, 0, 0)
QuietBackground ==
    /\ storageSettings = DEFAULT_SETTINGS
    /\ initPc = "done"
    /\ handlers = <<>>
    /\ baseSettings = Undefined
QuietDebounce == InitDebounce({"ts"}, {OBSERVE_WAIT}, 0, 0)
QuietParser == InitParse({"pro"}, {<<"txt">>})
QuietWait == InitWaitFor({FALSE}, 0)
QuietPanel == InitPanel({{}}, {"block"}, 0, 0)
QuietCode == InitCode({<<>>})
QuietDom == InitDom(0, {FALSE}) /\ ~dom.monaco

Init ==
    /\ InitClient({RPM_PRO, RPM_FLASH}, MaxCalls, MaxTicks)
    /\ QuietBackground
    /\ QuietDebounce
    /\ QuietParser
    /\ QuietWait
    /\ QuietPanel
    /\ QuietCode
    /\ QuietDom

Next ==
    \/ \E key \in ApiKeys : Call("testApiKey", key)
    \/ \E o \in Operations \ {"testApiKey"} : Call(o, StoredKey)
    \/ \E o \in ResolveOutcomes : FetchResolve(o)
    \/ FetchReject
    \/ \E tm \in timers : TimeoutFire(tm)
    \/ \E tm \in timers : DelayFire(tm)
    \/ ClockTick
    \/ ClockSleep
    \/ ClockIdle

Spec == Init /\ [][Next]_vars

\* The flash build under a server that answers at once, with a text or with
\* an HTTP error status, and a page that calls analyzeCode again and again.
InitRate ==
    /\ InitClient({RPM_FLASH}, RateCalls, RateTicks)
    /\ QuietBackground
    /\ QuietDebounce
    /\ QuietParser
    /\ QuietWait
    /\ QuietPanel
    /\ QuietCode
    /\ QuietDom

NextRate ==
    \/ Call("analyzeCode", StoredKey)
    \/ \E o \in {"ok", "status"} : FetchResolve(o)
    \/ \E tm \in timers : DelayFire(tm)
    \/ ClockTick

SpecRate == InitRate /\ [][NextRate]_vars

\* The background service receiving messages while it initializes.
InitSettings ==
    /\ InitBackground
    /\ QuietClient
    /\ QuietDebounce
    /\ QuietParser
    /\ QuietWait
    /\ QuietPanel
    /\ QuietCode
    /\ QuietDom

NextSettings ==
    \/ \E m \in Messages : Receive(m)
    \/ \E h \in HandlerIds : ReadDone(h)
    \/ \E h \in HandlerIds : WriteDone(h)
    \/ InitRead
    \/ InitWrite

SpecSettings == InitSettings /\ [][NextSettings]_vars

\* A debounced function called by the page.
InitDeb ==
    /\ InitDebounce({"ts", "js"}, {OBSERVE_WAIT, ANALYSIS_DELAY}, MaxDebCalls, MaxDebTicks)
    /\ QuietClient
    /\ QuietBackground
    /\ QuietParser
    /\ QuietWait
    /\ QuietPanel
    /\ QuietCode
    /\ QuietDom

NextDebounce ==
    \/ \E args \in DebArgs : DebouncedCall(args)
    \/ \E tm \in debTimers : LaterFire(tm)
    \/ DebClockTick

SpecDebounce == InitDeb /\ [][NextDebounce]_vars

\* A parser applied to a response text.
InitParsers ==
    /\ InitParse({"pro", "flash"}, Texts)
    /\ QuietClient
    /\ QuietBackground
    /\ QuietDebounce
    /\ QuietWait
    /\ QuietPanel
    /\ QuietCode
    /\ QuietDom

NextParse ==
    \/ ParseAnalysis
    \/ \E language \in {"javascript"} : ParseSolution(language)
    \/ ParseComplexity
    \/ ParseOptimization

SpecParse == InitParsers /\ [][NextParse]_vars

\* The content script waiting for the code editor.
InitWait ==
    /\ InitWaitFor(BOOLEAN, MaxDomChanges)
    /\ QuietClient
    /\ QuietBackground
    /\ QuietDebounce
    /\ QuietParser
    /\ QuietPanel
    /\ QuietCode
    /\ QuietDom

NextWait ==
    \/ \E ms \in WaitTimeouts : WaitForElement(EDITOR_SELECTOR, ms)
    \/ PollFire
    \/ WaitClockTick
    \/ ElementAppears
    \/ ElementDisappears

SpecWait == InitWait /\ [][NextWait]_vars

\* Timers fire and time passes.
FairSpecWait == SpecWait /\ WF_vars(PollFire) /\ WF_vars(WaitClockTick)

\* The content script on a problem page, the user and the popup.
InitContent ==
    /\ InitPanel(SUBSET PageElements, {"block", "none"}, MaxClicks, MaxTriggers)
    /\ QuietClient
    /\ QuietBackground
    /\ QuietDebounce
    /\ QuietParser
    /\ QuietWait
    /\ QuietCode
    /\ QuietDom

NextContent ==
    \/ InjectUI
    \/ \E el \in PanelElements : Click(el)
    \/ \E action \in {"analyze", "complexity"} : ContentReceive("TRIGGER_ANALYSIS", action)
    \/ ContentReceive("PING", "none")
    \/ TriggerTimeout
    \/ ContentLoad
    \/ BackgroundHandle
    \/ FirstInstall

SpecContent == InitContent /\ [][NextContent]_vars

\* The syntax check applied to a code string.
InitSyntax ==
    /\ InitCode(Codes)
    /\ QuietClient
    /\ QuietBackground
    /\ QuietDebounce
    /\ QuietParser
    /\ QuietWait
    /\ QuietPanel
    /\ QuietDom

NextSyntax ==
    \/ \E language \in ScriptLanguages : ParseCodeStructure(language)
    \/ \E language \in UncheckedLanguages : ParseCodeStructure(language)

SpecSyntax == InitSyntax /\ [][NextSyntax]_vars

\* Code extraction from a problem page.
InitExtract ==
    /\ InitDom(MaxSources, BOOLEAN)
    /\ QuietClient
    /\ QuietBackground
    /\ QuietDebounce
    /\ QuietParser
    /\ QuietWait
    /\ QuietPanel
    /\ QuietCode

NextExtract ==
    \/ ExtractCode
    \/ GetCurrentCodeInfo

SpecExtract == InitExtract /\ [][NextExtract]_vars

-----------------------------------------------------------------------------
(* Properties of the retry loop *)

DelayTimers == { tm \in timers : tm.kind = "delay" }
AbortTimers == { tm \in timers : tm.kind = "abort" }
OwnAbortTimer == AbortTimer(callId, attempt, hist.startedAt)
ThrowingOperations == Operations \ {"testApiKey"}

\* C1: a call of makeRequest sends at most MAX_RETRIES HTTP requests whatever
\* the fetch outcomes are; once the third attempt has failed the call has
\* returned success=false and no further attempt or wait is pending; and a
\* call in progress always has the timer pending that ends its current wait
\* (the request timeout while fetching, the backoff while delaying), so it
\* cannot hang.
C1_RetryStops ==
    /\ hist.sent <= MAX_RETRIES
    /\ attempt <= MAX_RETRIES
    /\ hist.failures <= MAX_RETRIES
    /\ hist.failures = MAX_RETRIES =>
          /\ pc = "idle"
          /\ ~response.none /\ ~response.success
          /\ DelayTimers = {}
    /\ pc = "fetching" => OwnAbortTimer \in timers
    /\ pc = "delaying" => DelayTimers # {} /\ attempt < MAX_RETRIES

C1_Witness ==
    /\ pc = "idle"
    /\ hist.sent = MAX_RETRIES
    /\ hist.failures = MAX_RETRIES
    /\ ~response.success /\ ~response.none

\* C2: while makeRequest waits after failed attempt k (k = 1, 2) exactly one
\* backoff timer is pending and it is due RETRY_DELAY * k after the failure;
\* attempt k+1 starts no earlier than that; after the last failed attempt
\* (and whenever no call is in progress) no backoff timer is pending.
C2_LinearBackoff ==
    /\ pc = "delaying" =>
          /\ attempt \in {1, 2}
          /\ hist.wait = RETRY_DELAY * attempt
          /\ DelayTimers = {DelayTimer(callId, attempt, hist.failedAt, RETRY_DELAY * attempt)}
          /\ now <= hist.failedAt + RETRY_DELAY * attempt
    /\ (pc = "fetching" /\ attempt > 1) =>
          hist.startedAt >= hist.failedAt + RETRY_DELAY * (attempt - 1)
    /\ pc # "delaying" => DelayTimers = {}
    /\ hist.failures = MAX_RETRIES => hist.wait = 0

C2_Witness ==
    /\ pc = "fetching"
    /\ attempt = MAX_RETRIES
    /\ hist.failures = 2
    /\ hist.startedAt = hist.failedAt + 2 * RETRY_DELAY
    /\ hist.startedAt >= 3 * RETRY_DELAY

\* C3: when every attempt has failed makeRequest returns success=false with
\* the message of the last failed attempt; an operation other than
\* testApiKey whose request failed (after retries or by the rate limit)
\* throws an Error carrying exactly the returned error string, and it returns
\* a parsed result only for a successful request.
C3_ErrorSurfaced ==
    /\ (pc = "idle" /\ hist.failures = MAX_RETRIES) =>
          /\ response = Failure(lastError)
          /\ lastError # Null
    /\ (pc = "idle" /\ op \in ThrowingOperations /\ ~response.success) =>
          outcome = [kind |-> "throw", message |-> response.error]
    /\ (op \in ThrowingOperations /\ outcome.kind = "return") =>
          /\ response.success
          /\ outcome.parsed = response.data

C3_Witness ==
    /\ pc = "idle"
    /\ op = "optimizeCode"
    /\ hist.failures = MAX_RETRIES
    /\ lastError = ErrorMessage("abort")
    /\ outcome = [kind |-> "throw", message |-> ErrorMessage("abort")]

-----------------------------------------------------------------------------
(* Properties of testApiKey *)

\* a string starting with 'AIza' of length exactly 39
WellFormedKey(key) ==
    /\ key.isString
    /\ Len(key.chars) = 39
    /\ \A i \in 1..4 : key.chars[i] = <<"A", "I", "z", "a">>[i]

\* C6 (as claimed): in the build whose rateLimitInfo sets requestsPerMinute
\* to RPM_PRO, testApiKey with a well-formed key sends at least one HTTP
\* request and reports isValid exactly when that request succeeded.
C6_TestKeyMakesRequest ==
    (/\ op = "testApiKey"
     /\ pc = "idle"
     /\ WellFormedKey(apiKey)
     /\ rateLimitInfo.requestsPerMinute = RPM_PRO)
    => /\ hist.sent >= 1
       /\ outcome.kind = "return"
       /\ outcome.isValid = response.success

\* C8: testApiKey never throws, and called with a key that is not well
\* formed it returns {isValid: false, error: 'Invalid API key format'} in one
\* step that sends no HTTP request, sets no timer and leaves rateLimitInfo as
\* it was.
C8_Step ==
    (callId' # callId /\ op' = "testApiKey" /\ ~WellFormedKey(apiKey')) =>
        /\ outcome' = [kind |-> "return", isValid |-> FALSE, error |-> "Invalid API key format"]
        /\ pc' = "idle"
        /\ hist'.sent = 0
        /\ rateLimitInfo' = rateLimitInfo
        /\ timers' = timers
        /\ sentInWindow' = sentInWindow

C8_InvalidKeyRejected ==
    /\ [](op = "testApiKey" => outcome.kind \in {"none", "return"})
    /\ []((op = "testApiKey" /\ ~WellFormedKey(apiKey)) =>
             (hist.sent = 0 /\ pc = "idle" /\ outcome.kind = "return" /\ ~outcome.isValid))
    /\ [][C8_Step]_vars

C8_Witness ==
    /\ op = "testApiKey"
    /\ apiKey.isString
    /\ Len(apiKey.chars) = 38
    /\ outcome = [kind |-> "return", isValid |-> FALSE, error |-> "Invalid API key format"]
    /\ hist.sent = 0

-----------------------------------------------------------------------------
(* Properties of the request timeout *)

\* C9 (as claimed): the timeout timer of an attempt is cancelled as soon as
\* the attempt has ended, so every pending timeout timer belongs to the
\* attempt whose fetch is in flight.
C9_TimerCancelledWithAttempt ==
    \A tm \in AbortTimers :
        /\ pc = "fetching"
        /\ tm = OwnAbortTimer


-----------------------------------------------------------------------------
(* Properties of the rate limit *)

\* C5 (as claimed): the HTTP requests sent within one rate-limit window,
\* retries and failed attempts included, never exceed requestsPerMinute.
C5_RequestsWithinQuota ==
    sentInWindow <= rateLimitInfo.requestsPerMinute

-----------------------------------------------------------------------------
(* Properties of the background message handling *)

AllHandled == \A h \in HandlerIds : handlers[h].pc = "done"

\* the settings after handling the messages hs one after the other, in any order
RECURSIVE SerialResults(_, _)
SerialResults(base, hs) ==
    IF hs = {} THEN {base}
    ELSE UNION { { Spread(r, handlers[h].msg.data) : r \in SerialResults(base, hs \ {h}) }
                 : h \in hs }

\* C7 (as claimed): once the messages that arrived after initialization have
\* all been handled, the stored settings are what handling them one after the
\* other, in some order, would have stored: no update is lost.
C7_NoLostUpdate ==
    (/\ Len(handlers) >= 2
     /\ AllHandled
     /\ baseSettings.initialized)
    => CurrentOrDefault(storageSettings) \in SerialResults(baseSettings.settings, HandlerIds)

-----------------------------------------------------------------------------
(* Properties of debounce *)

\* C10: func is invoked only with the arguments of the latest call and only
\* once that call is at least wait old; every burst of calls (a call with no
\* invocation pending opens one) gets exactly one invocation: the bursts are
\* the invocations made plus the one still pending, and a pending invocation
\* is the single timer set by the latest call, due wait after it.
C10_Debounce ==
    /\ debLog.invocations > 0 =>
          /\ debLog.invoked.args = debLog.invoked.lastCall.args
          /\ debLog.invoked.at >= debLog.invoked.lastCall.at + wait
    /\ debLog.bursts = debLog.invocations + (IF debLog.open THEN 1 ELSE 0)
    /\ debLog.open =>
          debTimers = {[id |-> debLog.lastCall.n, deadline |-> debLog.lastCall.at + wait,
                        args |-> debLog.lastCall.args]}
    /\ ~debLog.open => debTimers = {}

C10_Witness ==
    /\ debLog.calls = 2
    /\ debLog.bursts = 1
    /\ debLog.invocations = 1
    /\ debLog.invoked.lastCall.n = 2
    /\ debLog.invoked.lastCall.at > 0
    /\ debLog.invoked.args = "b"
    /\ debLog.invoked.at = debLog.invoked.lastCall.at + wait

-----------------------------------------------------------------------------
(* Properties of the response parsers *)

IsArray(v) == v.t = "array"
IsString(v) == v.t = "string"
IsNumber(v) == v.t = "number"

\* the result types declared in types/index
DeclaredShape(parser, v) ==
    CASE parser = "analysis" ->
           /\ IsArray(v.errors) /\ IsArray(v.warnings) /\ IsArray(v.suggestions)
           /\ IsNumber(v.confidence)
      [] parser = "solution" ->
           /\ IsString(v.code) /\ IsString(v.language) /\ IsString(v.approach)
           /\ IsString(v.timeComplexity) /\ IsString(v.spaceComplexity)
      [] parser = "complexity" ->
           /\ v.timeComplexity.t = "object"
           /\ IsString(v.spaceComplexity) /\ IsString(v.explanation)
      [] parser = "optimization" -> IsArray(v)

\* C4 (as claimed): for every non-empty response text each parser returns
\* without throwing a result of its declared shape, and the fallback result
\* when the text it parses is not JSON.
C4_ParsersRecover ==
    "none" \notin DOMAIN parseResult =>
        /\ ~parseResult.threw
        /\ DeclaredShape(parseResult.parser, parseResult.value)
        /\ ~JSONparse(JsonSource(parserBuild, responseText)).ok => parseResult.fallback

-----------------------------------------------------------------------------
(* Properties of waitForElement *)

WaitSettled == waitFor.pc \in {"resolved", "rejected"}

\* C11: the promise settles at most once; it resolves at the first poll that
\* finds the element (a poll is made at once and then POLL_INTERVAL ms after
\* the previous one), else rejects with the not-found message at the first
\* poll made timeout ms or more after the start; once settled no poll is
\* pending; and a promise that was started does settle.
C11_SettledState ==
    /\ waitFor.settles = (IF WaitSettled THEN 1 ELSE 0)
    /\ waitFor.pc = "polling" =>
          /\ waitFor.timer = waitLog.lastPollAt + POLL_INTERVAL
          /\ ~waitLog.matched /\ waitLog.elapsed < waitFor.timeoutMs
    /\ WaitSettled =>
          /\ waitFor.timer = NoTimer
          /\ ~waitLog.earlierMatch /\ ~waitLog.earlierExpired
    /\ waitFor.pc = "resolved" => waitLog.matched
    /\ waitFor.pc = "rejected" =>
          /\ ~waitLog.matched
          /\ waitLog.elapsed >= waitFor.timeoutMs
          /\ waitFor.error = NotFoundError(EDITOR_SELECTOR, waitFor.timeoutMs)
    /\ waitFor.pc = "idle" => waitLog.polls = 0 /\ waitFor.timer = NoTimer

C11_SettlesOnce ==
    /\ []C11_SettledState
    /\ [][WaitSettled => UNCHANGED <<waitFor, waitLog>>]_vars
    /\ (waitFor.pc # "idle") ~> WaitSettled

\* a wait that polled three times and then rejected, late
C11_Witness ==
    /\ waitFor.pc = "rejected"
    /\ waitLog.polls >= 3
    /\ waitLog.elapsed > waitFor.timeoutMs

-----------------------------------------------------------------------------
(* Properties of the content script *)

\* C12 (as claimed): the message showSettings sends is handled by the
\* background service with success, and handling it opens the setup page.
C12_SettingsOpensSetup ==
    \A i \in DOMAIN runtime.handled :
        runtime.handled[i].type = "OPEN_SETUP" =>
            runtime.handled[i].success /\ runtime.handled[i].openedSetup

\* C13 (as claimed): a TRIGGER_ANALYSIS message for analyze or complexity
\* that arrives when the panel is injected is answered with success=true
\* after the corresponding handler has been triggered.
C13_TriggerRunsHandler ==
    \A i \in DOMAIN triggers.responses :
        LET r == triggers.responses[i] IN
        (r.injected /\ r.action \in {"analyze", "complexity"}) =>
            r.success /\ r.handled

\* C14 (as claimed): currentState.isVisible tells whether the injected
\* panel is displayed.
C14_VisibleIffDisplayed ==
    panel.isInjected => (panel.isVisible <=> Displayed(panel))

-----------------------------------------------------------------------------
(* Properties of the syntax check *)

Opener(char) == CASE char = ")" -> "(" [] char = "]" -> "[" [] char = "}" -> "{"

\* the reference: a stack of the brackets still open
RECURSIVE NestedFrom(_, _, _)
NestedFrom(str, i, stack) ==
    IF i > Len(str) THEN stack = <<>>
    ELSE IF str[i] \in {"(", "[", "{"} THEN NestedFrom(str, i + 1, <<str[i]>> \o stack)
    ELSE IF str[i] \in {")", "]", "}"}
    THEN /\ stack # <<>>
         /\ Head(stack) = Opener(str[i])
         /\ NestedFrom(str, i + 1, Tail(stack))
    ELSE NestedFrom(str, i + 1, stack)

ProperlyNested(str) == NestedFrom(str, 1, <<>>)

\* C15 (as claimed): for JavaScript and TypeScript code hasErrors is true
\* exactly when the brackets of the code are not properly matched and nested.
C15_BracketCheckExact ==
    ("none" \notin DOMAIN codeInfo /\ codeInfo.language \in ScriptLanguages) =>
        (codeInfo.hasErrors <=> ~ProperlyNested(codeInfo.content))

-----------------------------------------------------------------------------
(* Properties of a call at the rate limit *)

\* the rate limit is reached: the window is still open and holds
\* requestsPerMinute counted requests, or the limit is 0
RateLimitReached ==
    (IF now > rateLimitInfo.resetTime THEN 0 ELSE rateLimitInfo.currentRequests)
        >= rateLimitInfo.requestsPerMinute

\* a step that starts a call of makeRequest
CallsMakeRequest ==
    /\ callId' = callId + 1
    /\ ~(op' = "testApiKey" /\ outcome'.kind = "return" /\ response' = NoResponse)

\* C16: a call of makeRequest made when the rate limit is reached returns
\* success=false with the rate-limit message; it sends no HTTP request,
\* starts no attempt, timer or wait, and leaves currentRequests as it was.
C16_Step ==
    (CallsMakeRequest /\ RateLimitReached) =>
        /\ response' = [success |-> FALSE, data |-> Null, none |-> FALSE,
                error |-> "Rate limit exceeded. Please wait before making another request."]
        /\ pc' = "idle"
        /\ hist'.sent = 0
        /\ sentInWindow' = (IF now > rateLimitInfo.resetTime THEN 0 ELSE sentInWindow)
        /\ timers' = timers
        /\ rateLimitInfo'.currentRequests = rateLimitInfo.currentRequests

C16_RateLimitRejects == [][C16_Step]_vars

\* the flash build has counted requestsPerMinute requests and rejected a call
C16_Witness ==
    /\ rateLimitInfo.requestsPerMinute = RPM_FLASH
    /\ rateLimitInfo.currentRequests = RPM_FLASH
    /\ response.error = RATE_LIMIT_MESSAGE
    /\ hist.sent = 0
    /\ pc = "idle"

-----------------------------------------------------------------------------
(* Properties of code extraction *)

Candidate(elements, joined, min, block) ==
    [text |-> IF elements = <<>> THEN EmptyText
              ELSE IF joined THEN Join(elements) ELSE elements[1],
     min |-> min, block |-> block]

\* the sources in priority order: the Monaco line selectors (when there is a
\* Monaco editor), the other editor selectors, each textarea, each pre/code
Candidates(d) ==
    [i \in 1..Len(monacoSelectors) |->
        Candidate(IF d.monaco THEN querySelectorAll(d, monacoSelectors[i]) ELSE <<>>,
                  TRUE, MIN_CODE_LENGTH, FALSE)]
    \o [i \in 1..Len(codeEditors) |->
        Candidate(querySelectorAll(d, codeEditors[i]), JoinsLines(codeEditors[i]),
                  MIN_CODE_LENGTH, FALSE)]
    \o [i \in 1..Len(querySelectorAll(d, "textarea")) |->
        Candidate(<<querySelectorAll(d, "textarea")[i]>>, FALSE, MIN_CODE_LENGTH, FALSE)]
    \o [i \in 1..Len(querySelectorAll(d, "pre, code")) |->
        Candidate(<<querySelectorAll(d, "pre, code")[i]>>, FALSE, MIN_BLOCK_LENGTH, TRUE)]

\* a source passes its length threshold
PassesLength(c) == c.text.len > c.min

\* a source passes its threshold: its length and, for a pre/code block, one
\* of the words class, function, def, #include
PassesThreshold(c) == PassesLength(c) /\ (c.block => c.text.keyword)

FirstText(candidates) ==
    IF candidates = <<>> THEN EmptyText ELSE trim(Head(candidates).text)

NullWhenEmpty ==
    extracted.called = "getCurrentCodeInfo" =>
        (extracted.isNull <=> extracted.code = EmptyText)

\* C17 (as claimed): the result is the trimmed text of the first source in
\* priority order that passes its length threshold, and '' when there is none
\* or an exception occurs; getCurrentCodeInfo returns null exactly then.
C17_FirstByLength ==
    extracted.called # "none" =>
        /\ extracted.code =
              IF dom.throws THEN EmptyText
              ELSE FirstText(SelectSeq(Candidates(dom), PassesLength))
        /\ NullWhenEmpty

\* C17 (amended): as above, where a pre/code block passes only if it is
\* longer than 50 characters and contains a code keyword.
C17_FirstByThreshold ==
    extracted.called # "none" =>
        /\ extracted.code =
              IF dom.throws THEN EmptyText
              ELSE FirstText(SelectSeq(Candidates(dom), PassesThreshold))
        /\ NullWhenEmpty

\* two sources pass, and the code of the one with the higher priority, found
\* by a selector behind the first, was returned
C17_Witness ==
    /\ extracted.called = "getCurrentCodeInfo"
    /\ ~dom.throws /\ ~extracted.isNull
    /\ Len(SelectSeq(Candidates(dom), PassesThreshold)) = 2
    /\ ~PassesThreshold(Candidates(dom)[1])
    /\ extracted.code = trim(Head(SelectSeq(Candidates(dom), PassesThreshold)).text)
    /\ extracted.code # trim(SelectSeq(Candidates(dom), PassesThreshold)[2].text)

====
